---------------------------- MODULE Spec2Model ----------------------------
(***************************************************************************)
(* A model of the lodestar blog backend: the HTTP handlers of              *)
(* app/auth/routes.py and app/api/routes.py acting on the relational       *)
(* store declared in app/models.py.                                        *)
(*                                                                         *)
(* Text values (titles, slugs, user names, e-mail addresses) are sequences *)
(* of one-character strings, so that the slug normalisation and the e-mail *)
(* pattern are computed character by character as the code computes them.  *)
(* Each handler is one action: it runs to completion on the store and      *)
(* leaves its HTTP answer in resp. The handlers that look a value up and   *)
(* then insert it are also given in two steps, the lookup and the commit,  *)
(* so that requests served by different workers interleave.                *)
(***************************************************************************)
EXTENDS Integers, Sequences, FiniteSets, TLC

VARIABLES
    users,          \* table users: sequence of rows, the row's id is its index
    posts,          \* table posts: function from post id to row
    tags,           \* table tags: sequence of rows
    comments,       \* table comments: function from comment id to row
    issued,         \* user ids for which access/refresh tokens have been issued
    now,            \* the value datetime.utcnow() returns
    post_seq,       \* number of post ids handed out so far
    comment_seq,    \* number of comment ids handed out so far
    resp,           \* the last HTTP exchange: the request's inputs and the answer
    created,        \* history: one entry per successful create_post, in order
    ever_published, \* history: ids of posts that have been persisted as published
    inflight        \* per worker: the request it is serving between lookup and commit

vars == <<users, posts, tags, comments, issued, now, post_seq, comment_seq,
          resp, created, ever_published, inflight>>

db == <<users, posts, tags, comments>>

----------------------------------------------------------------------------
(* Bounds of the model *)

MaxUsers == 3
MaxPosts == 2
MaxTags == 2
MaxComments == 2
MaxTime == 4

(* NULL of a DateTime column; the clock starts above it *)
NoTime == 0
(* "no user": NULL of a user_id column, the identity of a request without token *)
NoUser == 0

----------------------------------------------------------------------------
(* Text *)

Digits == <<"0", "1", "2", "3", "4", "5", "6", "7", "8", "9">>
Letters == {"a", "b", "c", "o", "x", "A", "B"}

(* str.lower() on the characters of the model *)
Lower(c) == CASE c = "A" -> "a" [] c = "B" -> "b" [] OTHER -> c

(* str.isalnum() on the characters of the model *)
IsAlnum(c) == c \in Letters \/ \E i \in 1..Len(Digits) : Digits[i] = c

RECURSIVE LowerStr(_)
LowerStr(s) ==
    IF s = <<>> THEN <<>> ELSE <<Lower(Head(s))>> \o LowerStr(Tail(s))

RECURSIVE Replace(_, _, _)
Replace(s, from, to) ==
    IF s = <<>> THEN <<>>
    ELSE <<IF Head(s) = from THEN to ELSE Head(s)>> \o Replace(Tail(s), from, to)

(* ''.join(c for c in slug if c.isalnum() or c in '-') *)
SlugChar(c) == IsAlnum(c) \/ c = "-"
KeepSlugChars(s) == SelectSeq(s, SlugChar)

RECURSIVE LStrip(_)
LStrip(s) == IF s # <<>> /\ Head(s) = "-" THEN LStrip(Tail(s)) ELSE s

RECURSIVE RStrip(_)
RStrip(s) ==
    IF s # <<>> /\ s[Len(s)] = "-" THEN RStrip(SubSeq(s, 1, Len(s) - 1)) ELSE s

(* str.strip('-') *)
Strip(s) == RStrip(LStrip(s))

(* str(counter) *)
RECURSIVE Str(_)
Str(n) ==
    IF n < 10 THEN <<Digits[n + 1]>> ELSE Str(n \div 10) \o <<Digits[(n % 10) + 1]>>

----------------------------------------------------------------------------
(* Request bodies: a JSON object is the set of its keys and a value for    *)
(* each key; the value of a key that is not in keys is never read.         *)

Has(data, k) == k \in data.keys

(* "not data": no JSON body, or an empty object *)
NoData(data) == data.keys = {}

(* "field not in data or not data[field]" for a text field *)
MissingText(data, k) == ~Has(data, k) \/ data[k] = <<>>


----------------------------------------------------------------------------
(* Values the requests of the model are built from *)

T_A == <<"A">>
T_A1 == <<"A", " ", "1">>
T_B == <<"B">>
T_bang == <<"!">>
S_a == <<"a", "_">>
Body_c == <<"c">>
Body_x == <<"x">>

PostBody(keys, title, content, excerpt, is_published, slug) ==
    [keys |-> keys, title |-> title, content |-> content, excerpt |-> excerpt,
     is_published |-> is_published, slug |-> slug]

(* A complete create_post body for a title *)
Titled(title) ==
    PostBody({"title", "content"}, title, Body_c, <<>>, FALSE, <<>>)

EmptyPostBody == PostBody({}, <<>>, <<>>, <<>>, FALSE, <<>>)

CreatePostBodies ==
    { EmptyPostBody,
      PostBody({"title"}, T_A, <<>>, <<>>, FALSE, <<>>),
      Titled(T_A), Titled(T_A1), Titled(T_bang),
      PostBody({"title", "content", "is_published"}, T_A, Body_c, <<>>, TRUE, <<>>),
      PostBody({"title", "content", "slug"}, T_bang, Body_c, <<>>, FALSE, S_a) }

UpdatePostBodies ==
    { EmptyPostBody,
      PostBody({"title", "content", "excerpt"}, T_B, Body_x, Body_x, FALSE, <<>>),
      PostBody({"is_published"}, <<>>, <<>>, <<>>, TRUE, <<>>),
      PostBody({"is_published"}, <<>>, <<>>, <<>>, FALSE, <<>>) }

----------------------------------------------------------------------------
(* The store *)

UserIds == 1..Len(users)
PostIds == DOMAIN posts
CommentIds == DOMAIN comments

(* Post.query.filter_by(slug=slug).first() is not None *)
PostSlugTaken(slug) == \E p \in PostIds : posts[p].slug = slug

(* The rows of f other than row k *)
Without(f, k) == [x \in (DOMAIN f) \ {k} |-> f[x]]

(* The rows of f and row k *)
With(f, k, row) == [x \in (DOMAIN f) \cup {k} |-> IF x = k THEN row ELSE f[x]]

(* unique=True on posts.slug: whether the INSERT of a row with this slug passes *)
(* A column without the constraint *)
PostInsertAllowed_Unchecked(slug) == TRUE

PostInsertAllowed(slug) == ~PostSlugTaken(slug)

----------------------------------------------------------------------------
(* The answer of a handler *)

NoReq == [keys |-> {}]

(* op: the handler; status, err: the HTTP status and the 'error' text; tok: the
   credential the request carried; id: the id in the URL, or of the row made;
   fault: whether the store failed during the request's commit; items: the ids a
   listing returns, with total, pages and current_page beside them for a paged
   listing; req: the JSON body, kept for the handlers whose answer is
   compared with it; granted: the user the answer's tokens are bound to *)
Answer(op, status, err, tok, id, fault) ==
    [op |-> op, status |-> status, err |-> err, tok |-> tok, id |-> id,
     fault |-> fault, items |-> {}, req |-> NoReq, granted |-> NoUser,
     total |-> 0, pages |-> 0, current_page |-> 0]

(* datetime.utcnow() of the next write that reads the clock: later than that of
   the last one *)
Clock == now + 1

(* The model follows the clock up to MaxTime *)
InTime(t) == t <= MaxTime

(* A credential a request can carry: none, or an access token that was issued *)
Tokens == {NoUser} \cup issued

----------------------------------------------------------------------------
(* Slug allocation of create_post *)

(* data.get('slug') or data['title'].lower().replace(' ', '-').replace('_', '-') *)
SlugSeed(data) ==
    IF Has(data, "slug") /\ data.slug # <<>> THEN data.slug
    ELSE Replace(Replace(LowerStr(data.title), " ", "-"), "_", "-")

SlugCandidate(data) == Strip(KeepSlugChars(SlugSeed(data)))

Suffixed(original, counter) == original \o <<"-">> \o Str(counter)

(* while Post.query.filter_by(slug=slug).first(): slug = f"{original_slug}-{counter}" *)
RECURSIVE UniqueSlugLoop(_, _, _)
UniqueSlugLoop(original, slug, counter) ==
    IF PostSlugTaken(slug)
    THEN UniqueSlugLoop(original, Suffixed(original, counter), counter + 1)
    ELSE slug

(* The loop with its counter started at 0 *)
UniquePostSlug_From0(original) == UniqueSlugLoop(original, original, 0)

UniquePostSlug(original) == UniqueSlugLoop(original, original, 1)

----------------------------------------------------------------------------
(* Rule of update_post and delete_post:                                    *)
(* "post.user_id != current_user_id and not user.is_admin" means denied    *)
(* The rule without the administrator's right *)
CanMutatePost_OwnerOnly(uid, post) == post.user_id = uid

CanMutatePost(uid, post) == post.user_id = uid \/ users[uid].is_admin

----------------------------------------------------------------------------
(* POST /api/v1/posts *)

(* create_post without "if post.is_published: post.published_at = ..." *)
NewPost_Unstamped(uid, data, slug, t) ==
    [title |-> data.title, content |-> data.content,
     excerpt |-> IF Has(data, "excerpt") THEN data.excerpt ELSE <<>>,
     slug |-> slug,
     is_published |-> IF Has(data, "is_published") THEN data.is_published ELSE FALSE,
     published_at |-> NoTime,
     created_at |-> t, updated_at |-> t, user_id |-> uid, tags |-> {}]

NewPost(uid, data, slug, t) ==
    LET pub == IF Has(data, "is_published") THEN data.is_published ELSE FALSE
    IN  [title |-> data.title, content |-> data.content,
         excerpt |-> IF Has(data, "excerpt") THEN data.excerpt ELSE <<>>,
         slug |-> slug, is_published |-> pub,
         published_at |-> IF pub THEN t ELSE NoTime,
         created_at |-> t, updated_at |-> t, user_id |-> uid, tags |-> {}]

Quiet == UNCHANGED <<users, posts, tags, comments, issued, now, post_seq,
                     comment_seq, created, ever_published, inflight>>

create_post(tok, data, t) ==
    LET op == "create_post"
        Fail(status, err) ==
            /\ resp' = Answer(op, status, err, tok, 0, FALSE)
            /\ Quiet
        Broken(err) ==
            /\ resp' = Answer(op, 500, err, tok, 0, TRUE)
            /\ Quiet
    IN
    /\ IF tok = NoUser THEN Fail(401, "Missing Authorization Header")
       ELSE IF NoData(data) THEN Fail(400, "No data provided")
       ELSE IF MissingText(data, "title") THEN Fail(400, "title is required")
       ELSE IF MissingText(data, "content") THEN Fail(400, "content is required")
       ELSE
         LET candidate == SlugCandidate(data)
             slug == UniquePostSlug(candidate)
             id == post_seq + 1
             post == NewPost(tok, data, slug, t)
         IN  IF ~PostInsertAllowed(slug)
             THEN Fail(500, "Failed to create post")
             ELSE
             \/ Broken("Failed to create post")
             \/   /\ post_seq < MaxPosts
                  /\ posts' = With(posts, id, post)
                  /\ post_seq' = id
                  /\ created' = Append(created,
                        [id |-> id, candidate |-> candidate,
                         supplied |-> (Has(data, "slug") /\ data.slug # <<>>),
                         slug |-> slug,
                         taken |-> {posts[p].slug : p \in PostIds}])
                  /\ ever_published' =
                        IF post.is_published THEN ever_published \cup {id}
                        ELSE ever_published
                  /\ resp' = Answer(op, 201, "", tok, id, FALSE)
                  /\ InTime(t)
                  /\ now' = t
                  /\ UNCHANGED <<users, tags, comments, issued, comment_seq, inflight>>

----------------------------------------------------------------------------
(* PUT /api/v1/posts/<post_id> *)

(* update_post without "and not post.published_at": every publication stamps *)
UpdatedPost_Restamp(post, data, t) ==
    LET p1 == IF Has(data, "title") THEN [post EXCEPT !.title = data.title] ELSE post
        p2 == IF Has(data, "content") THEN [p1 EXCEPT !.content = data.content] ELSE p1
        p3 == IF Has(data, "excerpt") THEN [p2 EXCEPT !.excerpt = data.excerpt] ELSE p2
        p4 == IF Has(data, "is_published")
              THEN [p3 EXCEPT !.is_published = data.is_published,
                              !.published_at =
                                  IF data.is_published THEN t ELSE p3.published_at]
              ELSE p3
    IN  [p4 EXCEPT !.updated_at = t]

(* An update that also takes the slug of the body *)
UpdatedPost_Reslug(post, data, t) ==
    LET p0 == IF Has(data, "slug") THEN [post EXCEPT !.slug = data.slug] ELSE post
        p1 == IF Has(data, "title") THEN [p0 EXCEPT !.title = data.title] ELSE p0
        p2 == IF Has(data, "content") THEN [p1 EXCEPT !.content = data.content] ELSE p1
        p3 == IF Has(data, "excerpt") THEN [p2 EXCEPT !.excerpt = data.excerpt] ELSE p2
        p4 == IF Has(data, "is_published")
              THEN [p3 EXCEPT !.is_published = data.is_published,
                              !.published_at =
                                  IF data.is_published /\ p3.published_at = NoTime
                                  THEN t ELSE p3.published_at]
              ELSE p3
    IN  [p4 EXCEPT !.updated_at = t]

UpdatedPost(post, data, t) ==
    LET p1 == IF Has(data, "title") THEN [post EXCEPT !.title = data.title] ELSE post
        p2 == IF Has(data, "content") THEN [p1 EXCEPT !.content = data.content] ELSE p1
        p3 == IF Has(data, "excerpt") THEN [p2 EXCEPT !.excerpt = data.excerpt] ELSE p2
        p4 == IF Has(data, "is_published")
              THEN [p3 EXCEPT !.is_published = data.is_published,
                              !.published_at =
                                  IF data.is_published /\ p3.published_at = NoTime
                                  THEN t ELSE p3.published_at]
              ELSE p3
    IN  [p4 EXCEPT !.updated_at = t]

update_post(tok, pid, data, t) ==
    LET op == "update_post"
        Fail(status, err) ==
            /\ resp' = Answer(op, status, err, tok, pid, FALSE)
            /\ Quiet
        Broken(err) ==
            /\ resp' = Answer(op, 500, err, tok, pid, TRUE)
            /\ Quiet
    IN
    /\ IF tok = NoUser THEN Fail(401, "Missing Authorization Header")
       ELSE IF pid \notin PostIds THEN Fail(404, "Not found")
       ELSE IF ~CanMutatePost(tok, posts[pid]) THEN Fail(403, "Permission denied")
       ELSE IF NoData(data) THEN Fail(400, "No data provided")
       ELSE \/ Broken("Failed to update post")
            \/ LET post == UpdatedPost(posts[pid], data, t)
               IN  /\ posts' = [posts EXCEPT ![pid] = post]
                   /\ ever_published' =
                         IF post.is_published THEN ever_published \cup {pid}
                         ELSE ever_published
                   /\ resp' = [Answer(op, 200, "", tok, pid, FALSE) EXCEPT !.req = data]
                   /\ InTime(t)
                   /\ now' = t
                   /\ UNCHANGED <<users, tags, comments, issued, post_seq,
                                  comment_seq, created, inflight>>

----------------------------------------------------------------------------
(* DELETE /api/v1/posts/<post_id> *)

(* cascade='all, delete-orphan' on Post.comments *)
(* A delete that leaves the comments of the post behind *)
CommentsAfterPostDelete_Orphans(pid) == comments

CommentsAfterPostDelete(pid) ==
    [c \in {x \in CommentIds : comments[x].post_id # pid} |-> comments[c]]

delete_post(tok, pid) ==
    LET op == "delete_post"
        Fail(status, err) ==
            /\ resp' = Answer(op, status, err, tok, pid, FALSE)
            /\ Quiet
        Broken(err) ==
            /\ resp' = Answer(op, 500, err, tok, pid, TRUE)
            /\ Quiet
    IN
    /\ IF tok = NoUser THEN Fail(401, "Missing Authorization Header")
       ELSE IF pid \notin PostIds THEN Fail(404, "Not found")
       ELSE IF ~CanMutatePost(tok, posts[pid]) THEN Fail(403, "Permission denied")
       ELSE \/ Broken("Failed to delete post")
            \/ /\ posts' = Without(posts, pid)
               /\ comments' = CommentsAfterPostDelete(pid)
               /\ resp' = Answer(op, 200, "", tok, pid, FALSE)
               /\ UNCHANGED <<users, tags, issued, now, post_seq, comment_seq,
                              created, ever_published, inflight>>

----------------------------------------------------------------------------
(* Comments *)

A_ann == <<"A", "n">>
E_ann == <<"a", "@", "x", ".", "c", "o">>

CommentBody(keys, content, author_name, author_email, is_approved) ==
    [keys |-> keys, content |-> content, author_name |-> author_name,
     author_email |-> author_email, is_approved |-> is_approved]

EmptyCommentBody == CommentBody({}, <<>>, <<>>, <<>>, FALSE)

CreateCommentBodies ==
    { EmptyCommentBody,
      CommentBody({"author_name"}, <<>>, A_ann, <<>>, FALSE),
      CommentBody({"content"}, Body_c, <<>>, <<>>, FALSE),
      CommentBody({"content", "author_name", "author_email"}, Body_c, A_ann, E_ann, FALSE),
      CommentBody({"content", "is_approved"}, Body_c, <<>>, <<>>, TRUE) }

(* get_jwt_identity() inside create_comment: the view is not wrapped in
   jwt_required and never verifies the request's token, so no identity is
   available to it whatever the Authorization header holds; the bare except
   turns that into "anonymous" *)
CommentIdentity(tok) == NoUser

(* A Comment(...) that takes is_approved from the request body *)
NewComment_TrustBody(pid, data, uid, t) ==
    [content |-> data.content, post_id |-> pid,
     author_name |-> IF Has(data, "author_name") THEN data.author_name ELSE <<>>,
     author_email |-> IF Has(data, "author_email") THEN data.author_email ELSE <<>>,
     is_approved |-> IF Has(data, "is_approved") THEN data.is_approved ELSE FALSE,
     user_id |-> uid, created_at |-> t]

NewComment(pid, data, uid, t) ==
    [content |-> data.content, post_id |-> pid,
     author_name |-> IF Has(data, "author_name") THEN data.author_name ELSE <<>>,
     author_email |-> IF Has(data, "author_email") THEN data.author_email ELSE <<>>,
     is_approved |-> FALSE, user_id |-> uid, created_at |-> t]

(* POST /api/v1/posts/<post_id>/comments *)
create_comment(tok, pid, data, t) ==
    LET op == "create_comment"
        Fail(status, err) ==
            /\ resp' = [Answer(op, status, err, tok, 0, FALSE) EXCEPT !.req = data]
            /\ Quiet
        Broken(err) ==
            /\ resp' = [Answer(op, 500, err, tok, 0, TRUE) EXCEPT !.req = data]
            /\ Quiet
    IN
    IF pid \notin PostIds THEN Fail(404, "Not found")
    ELSE IF NoData(data) \/ ~Has(data, "content")
         THEN Fail(400, "Comment content is required")
    ELSE \/ Broken("Failed to create comment")
         \/ LET id == comment_seq + 1
            IN  /\ comment_seq < MaxComments
                /\ comments' = With(comments, id,
                                    NewComment(pid, data, CommentIdentity(tok), t))
                /\ comment_seq' = id
                /\ InTime(t)
                /\ now' = t
                /\ resp' = [Answer(op, 201, "", tok, id, FALSE) EXCEPT !.req = data]
                /\ UNCHANGED <<users, posts, tags, issued, post_seq, created,
                               ever_published, inflight>>

(* Comment.query.filter_by(post_id=post_id, is_approved=True).all() *)
(* The query without is_approved=True *)
ApprovedCommentsOf_Unfiltered(pid) ==
    {c \in CommentIds : comments[c].post_id = pid}

ApprovedCommentsOf(pid) ==
    {c \in CommentIds : comments[c].post_id = pid /\ comments[c].is_approved}

(* GET /api/v1/posts/<post_id>/comments *)
get_post_comments(tok, pid) ==
    LET op == "get_post_comments"
    IN  /\ resp' = IF pid \notin PostIds
                   THEN Answer(op, 404, "Not found", tok, pid, FALSE)
                   ELSE [Answer(op, 200, "", tok, pid, FALSE)
                            EXCEPT !.items = ApprovedCommentsOf(pid)]
        /\ Quiet

----------------------------------------------------------------------------
(* Listings *)

(* The query string of a read: page and per_page as request.args.get(...,
   type=int) hands them on; tag and slug are <<>> when the request has none *)
Query(page, per_page, published_only, tag, slug) ==
    [keys |-> {}, page |-> page, per_page |-> per_page,
     published_only |-> published_only, tag |-> tag, slug |-> slug]

(* query.paginate(page=page, per_page=per_page, error_out=False): a page below
   1 is taken as page 1; per_page is at least 1 in every request of the model *)
PageNumber(page) == IF page < 1 THEN 1 ELSE page

PageCount(total, per_page) == (total + per_page - 1) \div per_page

(* The place of a row in ORDER BY key DESC; the clock gives every write its own
   time, so no two rows of a table share a key *)
RankDesc(ids, key, i) == 1 + Cardinality({j \in ids : key[j] > key[i]})

(* .limit(per_page).offset((page - 1) * per_page) of the ordered query *)
PageOf(ids, key, page, per_page) ==
    {i \in ids : /\ (PageNumber(page) - 1) * per_page < RankDesc(ids, key, i)
                 /\ RankDesc(ids, key, i) <= PageNumber(page) * per_page}

(* The answer of a paged listing: 'total': total, 'pages': pages,
   'current_page': page, the number the request gave *)
Paged(op, tok, query, ids, items) ==
    [Answer(op, 200, "", tok, 0, FALSE) EXCEPT
        !.req = query, !.items = items, !.total = Cardinality(ids),
        !.pages = PageCount(Cardinality(ids), query.per_page),
        !.current_page = query.page]

CreatedAt == [p \in PostIds |-> posts[p].created_at]
PublishedAt == [p \in PostIds |-> posts[p].published_at]

(* Tag.query.filter_by(slug=...).first(): tag slugs are unique *)
TagsBySlug(slug) == {g \in 1..Len(tags) : tags[g].slug = slug}

(* The rows of the query of GET /api/v1/posts *)
ApiPostsQuery(published_only, tag) ==
    LET base == IF published_only THEN {p \in PostIds : posts[p].is_published}
                ELSE PostIds
    IN  IF tag # <<>> /\ TagsBySlug(tag) # {}
        THEN {p \in base : \E g \in TagsBySlug(tag) : g \in posts[p].tags}
        ELSE base

(* GET /api/v1/posts *)
get_posts(page, per_page, published_only, tag) ==
    LET ids == ApiPostsQuery(published_only, tag)
    IN  /\ resp' = Paged("get_posts", NoUser,
                         Query(page, per_page, published_only, tag, <<>>),
                         ids, PageOf(ids, CreatedAt, page, per_page))
        /\ Quiet

(* GET /api/v1/posts/<post_id> *)
get_post(pid) ==
    /\ resp' = IF pid \notin PostIds
               THEN Answer("get_post", 404, "Not found", NoUser, pid, FALSE)
               ELSE Answer("get_post", 200, "", NoUser, pid, FALSE)
    /\ Quiet

(* Post.query.filter_by(is_published=True) *)
(* A query without the filter *)
PublishedPosts_All == PostIds

PublishedPosts == {p \in PostIds : posts[p].is_published}

(* GET /posts *)
main_get_posts(page, per_page) ==
    /\ resp' = Paged("main_get_posts", NoUser, Query(page, per_page, TRUE, <<>>, <<>>),
                     PublishedPosts, PageOf(PublishedPosts, PublishedAt, page, per_page))
    /\ Quiet

(* Post.query.filter_by(slug=slug, is_published=True).first() *)
PublishedBySlug(slug) ==
    {p \in PostIds : posts[p].slug = slug /\ posts[p].is_published}

(* GET /posts/<slug> *)
main_get_post(slug) ==
    LET op == "main_get_post"
        query == Query(0, 0, TRUE, <<>>, slug)
    IN  /\ \/ /\ PublishedBySlug(slug) = {}
              /\ resp' = [Answer(op, 404, "Post not found", NoUser, 0, FALSE)
                             EXCEPT !.req = query]
           \/ \E p \in PublishedBySlug(slug) :
                 resp' = [Answer(op, 200, "", NoUser, p, FALSE)
                             EXCEPT !.req = query, !.items = {p}]
        /\ Quiet

(* tag.posts.filter_by(is_published=True) *)
PublishedOfTag(g) == {p \in PostIds : g \in posts[p].tags /\ posts[p].is_published}

(* GET /tags/<slug> *)
get_posts_by_tag(slug, page, per_page) ==
    LET op == "get_posts_by_tag"
        query == Query(page, per_page, TRUE, <<>>, slug)
    IN  /\ \/ /\ TagsBySlug(slug) = {}
              /\ resp' = [Answer(op, 404, "Tag not found", NoUser, 0, FALSE)
                             EXCEPT !.req = query]
           \/ \E g \in TagsBySlug(slug) :
                 resp' = [Paged(op, NoUser, query, PublishedOfTag(g),
                                PageOf(PublishedOfTag(g), PublishedAt, page, per_page))
                             EXCEPT !.id = g]
        /\ Quiet

----------------------------------------------------------------------------
(* Administration *)

(* admin_required: jwt_required, then "not user or not user.is_admin" -> 403.
   The status the wrapper answers with, 0 when it calls the view. *)
(* The wrapper without its is_admin test *)
AdminGate_AnyUser(tok) ==
    IF tok = NoUser THEN 401
    ELSE IF tok \notin UserIds THEN 403
    ELSE 0

AdminGate(tok) ==
    IF tok = NoUser THEN 401
    ELSE IF tok \notin UserIds \/ ~users[tok].is_admin THEN 403
    ELSE 0

(* A wrapper that tests the caller after the view has run: the refusal is
   answered, and the comment named in the URL is approved all the same *)
AdminDenied_AfterView(op, tok, id) ==
    /\ resp' = Answer(op, AdminGate(tok),
                      IF AdminGate(tok) = 401 THEN "Missing Authorization Header"
                      ELSE "Admin privileges required", tok, id, FALSE)
    /\ comments' = [c \in CommentIds |->
                       IF c = id THEN [comments[c] EXCEPT !.is_approved = TRUE]
                       ELSE comments[c]]
    /\ UNCHANGED <<users, posts, tags, issued, now, post_seq, comment_seq,
                   created, ever_published, inflight>>

AdminDenied(op, tok, id) ==
    /\ resp' = Answer(op, AdminGate(tok),
                      IF AdminGate(tok) = 401 THEN "Missing Authorization Header"
                      ELSE "Admin privileges required", tok, id, FALSE)
    /\ Quiet

(* approve_comment without db.session.rollback(): the assignment made before
   the failed commit stays *)
approve_comment_NoRollback(tok, cid) ==
    LET op == "approve_comment"
        Fail(status, err) ==
            /\ resp' = Answer(op, status, err, tok, cid, FALSE)
            /\ Quiet
        Approved == [comments EXCEPT ![cid].is_approved = TRUE]
    IN
    IF AdminGate(tok) # 0 THEN AdminDenied(op, tok, cid)
    ELSE IF cid \notin CommentIds THEN Fail(404, "Not found")
    ELSE /\ comments' = Approved
         /\ \/ resp' = Answer(op, 500, "Failed to approve comment", tok, cid, TRUE)
            \/ resp' = Answer(op, 200, "", tok, cid, FALSE)
         /\ UNCHANGED <<users, posts, tags, issued, now, post_seq, comment_seq,
                        created, ever_published, inflight>>

(* POST /api/v1/admin/comments/<comment_id>/approve *)
approve_comment(tok, cid) ==
    LET op == "approve_comment"
        Fail(status, err) ==
            /\ resp' = Answer(op, status, err, tok, cid, FALSE)
            /\ Quiet
        Broken(err) ==
            /\ resp' = Answer(op, 500, err, tok, cid, TRUE)
            /\ Quiet
    IN
    IF AdminGate(tok) # 0 THEN AdminDenied(op, tok, cid)
    ELSE IF cid \notin CommentIds THEN Fail(404, "Not found")
    ELSE \/ Broken("Failed to approve comment")
         \/ /\ comments' = [comments EXCEPT ![cid].is_approved = TRUE]
            /\ resp' = Answer(op, 200, "", tok, cid, FALSE)
            /\ UNCHANGED <<users, posts, tags, issued, now, post_seq, comment_seq,
                           created, ever_published, inflight>>

(* The pages a query without ORDER BY can give: the database returns the rows
   in an order of its choosing, so a page holds any rows of the page's number *)
UnorderedPages(ids, page, per_page) ==
    LET before == (PageNumber(page) - 1) * per_page
        left == IF Cardinality(ids) > before THEN Cardinality(ids) - before ELSE 0
        n == IF left < per_page THEN left ELSE per_page
    IN  {S \in SUBSET ids : Cardinality(S) = n}

(* GET /api/v1/admin/users *)
get_all_users(tok, page, per_page) ==
    LET op == "get_all_users"
    IN  IF AdminGate(tok) # 0 THEN AdminDenied(op, tok, 0)
        ELSE /\ \E items \in UnorderedPages(UserIds, page, per_page) :
                   resp' = Paged(op, tok, Query(page, per_page, FALSE, <<>>, <<>>),
                                 UserIds, items)
             /\ Quiet

CommentCreatedAt == [c \in CommentIds |-> comments[c].created_at]

(* GET /api/v1/admin/comments *)
get_all_comments(tok, page, per_page, approved_only) ==
    LET op == "get_all_comments"
        ids == {c \in CommentIds : approved_only => comments[c].is_approved}
    IN  IF AdminGate(tok) # 0 THEN AdminDenied(op, tok, 0)
        ELSE /\ resp' = Paged(op, tok, Query(page, per_page, approved_only, <<>>, <<>>),
                              ids, PageOf(ids, CommentCreatedAt, page, per_page))
             /\ Quiet

----------------------------------------------------------------------------
(* Tags *)

N_A == <<"A">>
N_a == <<"a">>
N_a1 == <<"a", "_", "1">>

TagBody(keys, name, slug, description) ==
    [keys |-> keys, slug |-> slug, name |-> name, description |-> description]

EmptyTagBody == TagBody({}, <<>>, <<>>, <<>>)

CreateTagBodies ==
    { EmptyTagBody,
      TagBody({"description"}, <<>>, <<>>, Body_c),
      TagBody({"name"}, N_A, <<>>, <<>>),
      TagBody({"name"}, N_a, <<>>, <<>>),
      TagBody({"name", "description"}, N_a1, <<>>, Body_c),
      TagBody({"name", "slug"}, T_bang, S_a, <<>>) }

TagIds == 1..Len(tags)

(* Tag.query.filter_by(name=data['name']).first() is not None *)
TagNameTaken(name) == \E g \in TagIds : tags[g].name = name

TagSlugTaken(slug) == \E g \in TagIds : tags[g].slug = slug

(* unique=True on tags.name and on tags.slug: whether the INSERT passes *)
TagInsertAllowed(tag) == ~TagNameTaken(tag.name) /\ ~TagSlugTaken(tag.slug)

(* data.get('slug') or data['name'].lower().replace(' ', '-').replace('_', '-') *)
TagSlugSeed(data) ==
    IF Has(data, "slug") /\ data.slug # <<>> THEN data.slug
    ELSE Replace(Replace(LowerStr(data.name), " ", "-"), "_", "-")

TagSlug(data) == Strip(KeepSlugChars(TagSlugSeed(data)))

NewTag(data, t) ==
    [name |-> data.name, slug |-> TagSlug(data),
     description |-> IF Has(data, "description") THEN data.description ELSE <<>>,
     created_at |-> t]

(* POST /api/v1/tags *)
create_tag(tok, data, t) ==
    LET op == "create_tag"
        Fail(status, err) ==
            /\ resp' = [Answer(op, status, err, tok, 0, FALSE) EXCEPT !.req = data]
            /\ Quiet
        Broken(err) ==
            /\ resp' = [Answer(op, 500, err, tok, 0, TRUE) EXCEPT !.req = data]
            /\ Quiet
    IN
    IF tok = NoUser THEN Fail(401, "Missing Authorization Header")
    ELSE IF NoData(data) \/ ~Has(data, "name") THEN Fail(400, "Tag name is required")
    ELSE IF TagNameTaken(data.name) THEN Fail(400, "Tag already exists")
    ELSE LET tag == NewTag(data, t)
         IN  IF ~TagInsertAllowed(tag)
             THEN Fail(500, "Failed to create tag")
             ELSE \/ Broken("Failed to create tag")
                  \/ /\ Len(tags) < MaxTags
                     /\ tags' = Append(tags, tag)
                     /\ InTime(t)
                     /\ now' = t
                     /\ resp' = [Answer(op, 201, "", tok, Len(tags) + 1, FALSE)
                                    EXCEPT !.req = data]
                     /\ UNCHANGED <<users, posts, comments, issued, post_seq,
                                    comment_seq, created, ever_published,
                                    inflight>>

----------------------------------------------------------------------------
(* Users *)

U_admin == <<"a", "d">>
U_test == <<"t", "u">>
U_new == <<"n", "u">>
E_admin == <<"a", "d", "@", "x", ".", "c", "o">>
E_test == <<"t", "u", "@", "x", ".", "c", "o">>
E_new == <<"n", "u", "@", "x", ".", "c", "o">>
E_Test == <<"T", "u", "@", "x", ".", "c", "o">>
E_bad == <<"n", "u", "@", "x">>
P_admin == <<"p", "a">>
P_test == <<"p", "t">>
P_new == <<"p", "n">>

(* generate_password_hash / check_password_hash: a hash verifies exactly the
   password it was made from *)
PasswordHash(password) == <<"#">> \o password
(* A check that accepts every password *)
CheckPassword_Any(user, password) == TRUE

CheckPassword(user, password) == user.password_hash = PasswordHash(password)

(* The character classes of the pattern of validate_email *)
EmailLetter(c) == c \in {"a", "b", "c", "d", "n", "o", "t", "u", "x", "A", "B", "T"}
EmailDigit(c) == \E i \in 1..Len(Digits) : Digits[i] = c
EmailLocalChar(c) == EmailLetter(c) \/ EmailDigit(c) \/ c \in {".", "_", "%", "+", "-"}
EmailDomainChar(c) == EmailLetter(c) \/ EmailDigit(c) \/ c \in {".", "-"}

(* re.match(r'^[a-zA-Z0-9._%+-]+@[a-zA-Z0-9.-]+\.[a-zA-Z]{2,}$', email):
   e[i] is the '@' and e[j] the '.' before the final letters *)
validate_email(e) ==
    \E i \in 1..Len(e), j \in 1..Len(e) :
        /\ e[i] = "@" /\ i >= 2
        /\ \A k \in 1..(i - 1) : EmailLocalChar(e[k])
        /\ e[j] = "." /\ j >= i + 2
        /\ \A k \in (i + 1)..(j - 1) : EmailDomainChar(e[k])
        /\ Len(e) - j >= 2
        /\ \A k \in (j + 1)..Len(e) : EmailLetter(e[k])

UserBody(keys, username, email, password) ==
    [keys |-> keys, password |-> password, username |-> username, email |-> email]

EmptyUserBody == UserBody({}, <<>>, <<>>, <<>>)

Account(username, email, password) ==
    UserBody({"username", "email", "password"}, username, email, password)

RegisterBodies ==
    { EmptyUserBody,
      UserBody({"username", "email"}, U_new, E_new, <<>>),
      Account(U_new, E_bad, P_new),
      Account(U_new, E_new, P_new),
      Account(U_test, E_new, P_new),
      Account(U_new, E_test, P_new),
      Account(U_new, E_Test, P_test),
      Account(E_test, E_new, P_new) }

(* User.query.filter_by(username=...).first() / filter_by(email=...).first() *)
UsernameTaken(username) == \E u \in UserIds : users[u].username = username
(* The email lookup finding nothing *)
EmailTaken_Never(email) == \E u \in {} : users[u].email = email

EmailTaken(email) == \E u \in UserIds : users[u].email = email

(* unique=True on users.username and users.email: whether the INSERT passes *)
UserInsertAllowed(user) ==
    \A u \in UserIds :
        users[u].username # user.username /\ users[u].email # user.email

NewUser(username, email, password, first_name, last_name, is_admin, t) ==
    [username |-> username, email |-> email,
     password_hash |-> PasswordHash(password),
     first_name |-> first_name, last_name |-> last_name,
     is_active |-> TRUE, is_admin |-> is_admin,
     created_at |-> t, updated_at |-> t, last_login |-> NoTime]

(* POST /auth/register *)
register(data, t) ==
    LET op == "register"
        Fail(status, err) ==
            /\ resp' = [Answer(op, status, err, NoUser, 0, FALSE) EXCEPT !.req = data]
            /\ Quiet
        Broken(err) ==
            /\ resp' = [Answer(op, 500, err, NoUser, 0, TRUE) EXCEPT !.req = data]
            /\ Quiet
    IN
    IF NoData(data) THEN Fail(400, "No data provided")
    ELSE IF MissingText(data, "username") THEN Fail(400, "username is required")
    ELSE IF MissingText(data, "email") THEN Fail(400, "email is required")
    ELSE IF MissingText(data, "password") THEN Fail(400, "password is required")
    ELSE IF ~validate_email(data.email) THEN Fail(400, "Invalid email format")
    ELSE IF UsernameTaken(data.username) THEN Fail(400, "Username already exists")
    ELSE IF EmailTaken(data.email) THEN Fail(400, "Email already exists")
    ELSE LET id == Len(users) + 1
             user == NewUser(data.username, data.email, data.password, <<>>, <<>>,
                             FALSE, t)
         IN  IF ~UserInsertAllowed(user)
             THEN Fail(500, "Failed to register user")
             ELSE \/ Broken("Failed to register user")
                  \/ /\ Len(users) < MaxUsers
                     /\ users' = Append(users, user)
                     /\ issued' = issued \cup {id}
                     /\ InTime(t)
                     /\ now' = t
                     /\ resp' = [Answer(op, 201, "", NoUser, id, FALSE)
                                    EXCEPT !.req = data, !.granted = id]
                     /\ UNCHANGED <<posts, tags, comments, post_seq, comment_seq,
                                    created, ever_published, inflight>>

LoginBody(keys, username_or_email, password) ==
    [keys |-> keys, password |-> password, username_or_email |-> username_or_email]

LoginBodies ==
    { LoginBody({}, <<>>, <<>>),
      LoginBody({"username_or_email"}, U_test, <<>>),
      LoginBody({"username_or_email", "password"}, U_test, P_test),
      LoginBody({"username_or_email", "password"}, E_test, P_test),
      LoginBody({"username_or_email", "password"}, U_test, P_new),
      LoginBody({"username_or_email", "password"}, U_new, P_new),
      LoginBody({"username_or_email", "password"}, E_test, P_new) }

(* The rows the filter (User.username == x) | (User.email == x) selects *)
LoginMatches(x) == {u \in UserIds : users[u].username = x \/ users[u].email = x}

(* user.last_login = datetime.utcnow(); the UPDATE also fires onupdate of
   users.updated_at *)
(* A login that writes nothing to the row *)
LoggedIn_Untouched(user, t) == user

LoggedIn(user, t) == [user EXCEPT !.last_login = t, !.updated_at = t]

(* POST /auth/login; u is the row .first() returns, NoUser when the filter
   selects none (the query has no ORDER BY: any selected row may come first) *)
login(data, u, t) ==
    LET op == "login"
        Fail(status, err) ==
            /\ resp' = [Answer(op, status, err, NoUser, 0, FALSE) EXCEPT !.req = data]
            /\ Quiet
        Broken(err) ==
            /\ resp' = [Answer(op, 500, err, NoUser, 0, TRUE) EXCEPT !.req = data]
            /\ Quiet
        x == IF Has(data, "username_or_email") THEN data.username_or_email ELSE <<>>
        password == IF Has(data, "password") THEN data.password ELSE <<>>
    IN
    /\ IF LoginMatches(x) = {} THEN u = NoUser ELSE u \in LoginMatches(x)
    /\ IF NoData(data) THEN Fail(400, "No data provided")
       ELSE IF x = <<>> \/ password = <<>>
            THEN Fail(400, "Username/email and password are required")
       ELSE IF u = NoUser \/ ~CheckPassword(users[u], password)
            THEN Fail(401, "Invalid credentials")
       ELSE IF ~users[u].is_active THEN Fail(401, "Account is deactivated")
       ELSE \/ Broken("Internal server error")
            \/ /\ users' = [users EXCEPT ![u] = LoggedIn(users[u], t)]
               /\ issued' = issued \cup {u}
               /\ InTime(t)
               /\ now' = t
               /\ resp' = [Answer(op, 200, "", NoUser, u, FALSE)
                              EXCEPT !.req = data, !.granted = u]
               /\ UNCHANGED <<posts, tags, comments, post_seq, comment_seq,
                              created, ever_published, inflight>>

(* Whether refresh finds the token's user: "not user or not user.is_active" *)
MayRefresh(tok) == tok \in UserIds /\ users[tok].is_active

(* POST /auth/refresh; tok is the user the refresh token is bound to *)
refresh(tok) ==
    LET op == "refresh"
    IN  /\ resp' = IF tok = NoUser
                   THEN Answer(op, 401, "Missing Authorization Header", tok, 0, FALSE)
                   ELSE IF ~MayRefresh(tok)
                   THEN Answer(op, 401, "User not found or inactive", tok, 0, FALSE)
                   ELSE [Answer(op, 200, "", tok, tok, FALSE) EXCEPT !.granted = tok]
        /\ Quiet

ChangeBody(keys, current_password, new_password) ==
    [keys |-> keys, current_password |-> current_password,
     new_password |-> new_password]

ChangePasswordBodies ==
    { ChangeBody({}, <<>>, <<>>),
      ChangeBody({"current_password"}, P_test, <<>>),
      ChangeBody({"current_password", "new_password"}, P_test, P_new),
      ChangeBody({"current_password", "new_password"}, P_new, P_test) }

(* A row whose password was set but not stored *)
PasswordChanged_Lost(user, password, t) == [user EXCEPT !.updated_at = t]

(* user.set_password(new_password); the UPDATE also fires onupdate of
   users.updated_at *)
PasswordChanged(user, password, t) ==
    [user EXCEPT !.password_hash = PasswordHash(password), !.updated_at = t]

(* POST /auth/change-password *)
change_password(tok, data, t) ==
    LET op == "change_password"
        Fail(status, err) ==
            /\ resp' = [Answer(op, status, err, tok, 0, FALSE) EXCEPT !.req = data]
            /\ Quiet
        Broken(err) ==
            /\ resp' = [Answer(op, 500, err, tok, 0, TRUE) EXCEPT !.req = data]
            /\ Quiet
        current_password ==
            IF Has(data, "current_password") THEN data.current_password ELSE <<>>
        new_password == IF Has(data, "new_password") THEN data.new_password ELSE <<>>
    IN
    IF tok = NoUser THEN Fail(401, "Missing Authorization Header")
    ELSE IF tok \notin UserIds THEN Fail(404, "User not found")
    ELSE IF NoData(data) THEN Fail(400, "No data provided")
    ELSE IF current_password = <<>> \/ new_password = <<>>
         THEN Fail(400, "Current password and new password are required")
    ELSE IF ~CheckPassword(users[tok], current_password)
         THEN Fail(400, "Current password is incorrect")
    ELSE \/ Broken("Internal server error")
         \/ /\ users' = [users EXCEPT
                            ![tok] = PasswordChanged(users[tok], new_password, t)]
            /\ InTime(t)
            /\ now' = t
            /\ resp' = [Answer(op, 200, "", tok, tok, FALSE) EXCEPT !.req = data]
            /\ UNCHANGED <<posts, tags, comments, issued, post_seq, comment_seq,
                           created, ever_published, inflight>>

----------------------------------------------------------------------------
(* Requests served side by side: each worker runs one handler at a time, and
   between the queries of a handler and its commit the other worker's queries
   and commits take place. The lookup step is the handler up to its last
   query; the commit step is db.session.add and db.session.commit, where the
   store checks its unique constraints, and the answer. *)

Workers == {"w1", "w2"}

(* What a worker holds between the two steps: the request and the slug the
   handler has worked out *)
Pending(op, tok, data, slug) == [slug |-> slug, op |-> op, tok |-> tok, req |-> data]

Idle == Pending("idle", NoUser, NoReq, <<>>)
NoneInflight == [w \in Workers |-> Idle]

(* Everything but the store's answer and the workers stays as it is *)
StoreQuiet == UNCHANGED <<users, posts, tags, comments, issued, now, post_seq,
                          comment_seq, created, ever_published>>

Hold(w, request) ==
    /\ inflight' = [inflight EXCEPT ![w] = request]
    /\ UNCHANGED resp
    /\ StoreQuiet

Release(w) == inflight' = [inflight EXCEPT ![w] = Idle]

(* create_post up to the end of its slug loop *)
create_post_lookup(w, tok, data) ==
    LET op == "create_post"
        Fail(status, err) ==
            /\ resp' = Answer(op, status, err, tok, 0, FALSE)
            /\ Quiet
    IN
    /\ inflight[w] = Idle
    /\ IF tok = NoUser THEN Fail(401, "Missing Authorization Header")
       ELSE IF NoData(data) THEN Fail(400, "No data provided")
       ELSE IF MissingText(data, "title") THEN Fail(400, "title is required")
       ELSE IF MissingText(data, "content") THEN Fail(400, "content is required")
       ELSE Hold(w, Pending(op, tok, data, UniquePostSlug(SlugCandidate(data))))

(* create_post from Post(...) on: the insert, refused by the store when the
   slug has been taken since the lookup *)
create_post_commit(w, t) ==
    LET op == "create_post"
        tok == inflight[w].tok
        data == inflight[w].req
        slug == inflight[w].slug
        id == post_seq + 1
        post == NewPost(tok, data, slug, t)
        Failed(fault) ==
            /\ resp' = Answer(op, 500, "Failed to create post", tok, 0, fault)
            /\ StoreQuiet
    IN
    /\ inflight[w].op = op
    /\ Release(w)
    /\ IF ~PostInsertAllowed(slug) THEN Failed(FALSE)
       ELSE \/ Failed(TRUE)
            \/ /\ post_seq < MaxPosts
               /\ posts' = With(posts, id, post)
               /\ post_seq' = id
               /\ created' = Append(created,
                     [id |-> id, candidate |-> SlugCandidate(data),
                      supplied |-> (Has(data, "slug") /\ data.slug # <<>>),
                      slug |-> slug,
                      taken |-> {posts[p].slug : p \in PostIds}])
               /\ ever_published' =
                     IF post.is_published THEN ever_published \cup {id}
                     ELSE ever_published
               /\ resp' = Answer(op, 201, "", tok, id, FALSE)
               /\ InTime(t)
               /\ now' = t
               /\ UNCHANGED <<users, tags, comments, issued, comment_seq>>

(* register up to the end of its two existence queries *)
register_lookup(w, data) ==
    LET op == "register"
        Fail(status, err) ==
            /\ resp' = [Answer(op, status, err, NoUser, 0, FALSE) EXCEPT !.req = data]
            /\ Quiet
    IN
    /\ inflight[w] = Idle
    /\ IF NoData(data) THEN Fail(400, "No data provided")
       ELSE IF MissingText(data, "username") THEN Fail(400, "username is required")
       ELSE IF MissingText(data, "email") THEN Fail(400, "email is required")
       ELSE IF MissingText(data, "password") THEN Fail(400, "password is required")
       ELSE IF ~validate_email(data.email) THEN Fail(400, "Invalid email format")
       ELSE IF UsernameTaken(data.username) THEN Fail(400, "Username already exists")
       ELSE IF EmailTaken(data.email) THEN Fail(400, "Email already exists")
       ELSE Hold(w, Pending(op, NoUser, data, <<>>))

(* register from User(...) on *)
register_commit(w, t) ==
    LET op == "register"
        data == inflight[w].req
        id == Len(users) + 1
        user == NewUser(data.username, data.email, data.password, <<>>, <<>>,
                        FALSE, t)
        Failed(fault) ==
            /\ resp' = [Answer(op, 500, "Failed to register user", NoUser, 0, fault)
                           EXCEPT !.req = data]
            /\ StoreQuiet
    IN
    /\ inflight[w].op = op
    /\ Release(w)
    /\ IF ~UserInsertAllowed(user) THEN Failed(FALSE)
       ELSE \/ Failed(TRUE)
            \/ /\ Len(users) < MaxUsers
               /\ users' = Append(users, user)
               /\ issued' = issued \cup {id}
               /\ InTime(t)
               /\ now' = t
               /\ resp' = [Answer(op, 201, "", NoUser, id, FALSE)
                              EXCEPT !.req = data, !.granted = id]
               /\ UNCHANGED <<posts, tags, comments, post_seq, comment_seq,
                              created, ever_published>>

(* create_tag up to the end of its name query *)
create_tag_lookup(w, tok, data) ==
    LET op == "create_tag"
        Fail(status, err) ==
            /\ resp' = [Answer(op, status, err, tok, 0, FALSE) EXCEPT !.req = data]
            /\ Quiet
    IN
    /\ inflight[w] = Idle
    /\ IF tok = NoUser THEN Fail(401, "Missing Authorization Header")
       ELSE IF NoData(data) \/ ~Has(data, "name")
            THEN Fail(400, "Tag name is required")
       ELSE IF TagNameTaken(data.name) THEN Fail(400, "Tag already exists")
       ELSE Hold(w, Pending(op, tok, data, TagSlug(data)))

(* create_tag from Tag(...) on *)
create_tag_commit(w, t) ==
    LET op == "create_tag"
        tok == inflight[w].tok
        data == inflight[w].req
        tag == NewTag(data, t)
        Failed(fault) ==
            /\ resp' = [Answer(op, 500, "Failed to create tag", tok, 0, fault)
                           EXCEPT !.req = data]
            /\ StoreQuiet
    IN
    /\ inflight[w].op = op
    /\ Release(w)
    /\ IF ~TagInsertAllowed(tag) THEN Failed(FALSE)
       ELSE \/ Failed(TRUE)
            \/ /\ Len(tags) < MaxTags
               /\ tags' = Append(tags, tag)
               /\ InTime(t)
               /\ now' = t
               /\ resp' = [Answer(op, 201, "", tok, Len(tags) + 1, FALSE)
                              EXCEPT !.req = data]
               /\ UNCHANGED <<users, posts, comments, issued, post_seq,
                              comment_seq, created, ever_published>>

----------------------------------------------------------------------------
(* The initial state: the store after the fixtures admin_headers and
   auth_headers of the test suite, an administrator and a regular user, both
   logged in *)

Init ==
    /\ users = << LoggedIn(NewUser(U_admin, E_admin, P_admin, <<>>, <<>>, TRUE, 1), 1),
                  LoggedIn(NewUser(U_test, E_test, P_test, <<>>, <<>>, FALSE, 1), 1) >>
    /\ posts = [p \in {} |-> 0]
    /\ tags = <<>>
    /\ comments = [c \in {} |-> 0]
    /\ issued = {1, 2}
    /\ now = 1
    /\ post_seq = 0
    /\ comment_seq = 0
    /\ resp = Answer("none", 0, "", NoUser, 0, FALSE)
    /\ created = <<>>
    /\ ever_published = {}
    /\ inflight = NoneInflight

(* A store as an operator's deactivation and removal of accounts leave it: a
   third user who logged in and was then deactivated, and a token, still in
   its holder's hands, of a user whose row is gone *)
U_off == <<"o", "u">>
E_off == <<"o", "u", "@", "x", ".", "c", "o">>
P_off == <<"p", "o">>
GoneUser == MaxUsers + 1

InitSession ==
    /\ users = << LoggedIn(NewUser(U_admin, E_admin, P_admin, <<>>, <<>>, TRUE, 1), 1),
                  LoggedIn(NewUser(U_test, E_test, P_test, <<>>, <<>>, FALSE, 1), 1),
                  [LoggedIn(NewUser(U_off, E_off, P_off, <<>>, <<>>, FALSE, 1), 1)
                      EXCEPT !.is_active = FALSE] >>
    /\ posts = [p \in {} |-> 0]
    /\ tags = <<>>
    /\ comments = [c \in {} |-> 0]
    /\ issued = {1, 2, 3, GoneUser}
    /\ now = 1
    /\ post_seq = 0
    /\ comment_seq = 0
    /\ resp = Answer("none", 0, "", NoUser, 0, FALSE)
    /\ created = <<>>
    /\ ever_published = {}
    /\ inflight = NoneInflight

(* The store after the administrator has made a draft and a visitor has
   commented on it: create_post by user 1 with the title "A" at time 2, then
   create_comment on that post at time 3 *)
InitSeeded ==
    /\ users = << LoggedIn(NewUser(U_admin, E_admin, P_admin, <<>>, <<>>, TRUE, 1), 1),
                  LoggedIn(NewUser(U_test, E_test, P_test, <<>>, <<>>, FALSE, 1), 1) >>
    /\ posts = With([p \in {} |-> 0], 1, NewPost(1, Titled(T_A), <<"a">>, 2))
    /\ tags = <<>>
    /\ comments = With([c \in {} |-> 0], 1,
                       NewComment(1, CommentBody({"content"}, Body_c, <<>>, <<>>, FALSE),
                                  NoUser, 3))
    /\ issued = {1, 2}
    /\ now = 3
    /\ post_seq = 1
    /\ comment_seq = 1
    /\ resp = Answer("none", 0, "", NoUser, 0, FALSE)
    /\ created = << [id |-> 1, candidate |-> <<"a">>, supplied |-> FALSE,
                     slug |-> <<"a">>, taken |-> {}] >>
    /\ ever_published = {}
    /\ inflight = NoneInflight

(* A store as the tests seed it, rows added directly beside the two users: a
   tag; a published post of the administrator and a later draft of the regular
   user, both carrying the tag; an approved comment on the first and a pending
   one on the second *)
SeedPost(uid, title, slug, is_published, t) ==
    [NewPost(uid, PostBody({"title", "content", "is_published"}, title, Body_c, <<>>,
                           is_published, <<>>), slug, t)
        EXCEPT !.tags = {1}]

InitPublic ==
    /\ users = << LoggedIn(NewUser(U_admin, E_admin, P_admin, <<>>, <<>>, TRUE, 1), 1),
                  LoggedIn(NewUser(U_test, E_test, P_test, <<>>, <<>>, FALSE, 1), 1) >>
    /\ tags = << NewTag(TagBody({"name"}, <<>>, N_a, <<>>), 1) >>
    /\ posts = With(With([p \in {} |-> 0], 1, SeedPost(1, T_A, <<"a">>, TRUE, 1)),
                    2, SeedPost(2, T_B, <<"b">>, FALSE, 2))
    /\ comments =
          With(With([c \in {} |-> 0], 1,
                    [NewComment(1, CommentBody({"content"}, Body_c, <<>>, <<>>, FALSE),
                                NoUser, 1) EXCEPT !.is_approved = TRUE]),
               2, NewComment(2, CommentBody({"content"}, Body_x, <<>>, <<>>, FALSE),
                             NoUser, 2))
    /\ issued = {1, 2}
    /\ now = 2
    /\ post_seq = 2
    /\ comment_seq = 2
    /\ resp = Answer("none", 0, "", NoUser, 0, FALSE)
    /\ created = << [id |-> 1, candidate |-> <<"a">>, supplied |-> FALSE,
                     slug |-> <<"a">>, taken |-> {}],
                    [id |-> 2, candidate |-> <<"b">>, supplied |-> FALSE,
                     slug |-> <<"b">>, taken |-> {<<"a">>}] >>
    /\ ever_published = {1}
    /\ inflight = NoneInflight

----------------------------------------------------------------------------
(* The handlers as actions: the environment picks the request *)

CreatePost(Bodies) ==
    \E tok \in Tokens, data \in Bodies :
        create_post(tok, data, Clock)

UpdatePost(Bodies) ==
    \E tok \in Tokens, pid \in 1..MaxPosts, data \in Bodies :
        update_post(tok, pid, data, Clock)

DeletePost ==
    \E tok \in Tokens, pid \in 1..MaxPosts :
        delete_post(tok, pid)

CreateComment(Bodies) ==
    \E tok \in Tokens, pid \in 1..MaxPosts, data \in Bodies :
        create_comment(tok, pid, data, Clock)

GetPostComments ==
    \E pid \in 1..MaxPosts : get_post_comments(NoUser, pid)

ApproveComment ==
    \E tok \in Tokens, cid \in 1..MaxComments :
        approve_comment(tok, cid)

GetAllUsers == \E tok \in Tokens : get_all_users(tok, 1, 20)

GetAllComments ==
    \E tok \in Tokens, approved_only \in BOOLEAN :
        get_all_comments(tok, 1, 20, approved_only)

CreateTag ==
    \E tok \in Tokens, data \in CreateTagBodies :
        create_tag(tok, data, Clock)

CreateTagWith(Bodies) ==
    \E tok \in Tokens, data \in Bodies :
        create_tag(tok, data, Clock)

Register ==
    \E data \in RegisterBodies : register(data, Clock)

RegisterWith(Bodies) ==
    \E data \in Bodies : register(data, Clock)

Login ==
    \E data \in LoginBodies, u \in {NoUser} \cup UserIds :
        login(data, u, Clock)

(* The page numbers and page sizes of the requests *)
Pages == {0, 1, 2, 3}
PageSizes == {1, 10}
AskedSlugs == {<<"a">>, <<"b">>, <<"x">>}

GetPosts ==
    \E page \in Pages, per_page \in PageSizes, published_only \in BOOLEAN,
       tag \in {<<>>, <<"a">>, <<"x">>} :
        get_posts(page, per_page, published_only, tag)

GetPost == \E pid \in 1..MaxPosts : get_post(pid)

MainGetPosts ==
    \E page \in Pages, per_page \in PageSizes : main_get_posts(page, per_page)

MainGetPost == \E slug \in AskedSlugs : main_get_post(slug)

GetPostsByTag ==
    \E slug \in AskedSlugs, page \in Pages, per_page \in PageSizes :
        get_posts_by_tag(slug, page, per_page)

ListUsers ==
    \E tok \in Tokens, page \in Pages, per_page \in PageSizes :
        get_all_users(tok, page, per_page)

ListComments ==
    \E tok \in Tokens, page \in Pages, per_page \in PageSizes, approved_only \in BOOLEAN :
        get_all_comments(tok, page, per_page, approved_only)

LoginWith(Bodies) ==
    \E data \in Bodies, u \in {NoUser} \cup UserIds :
        login(data, u, Clock)

Refresh == \E tok \in Tokens : refresh(tok)

ChangePassword ==
    \E tok \in Tokens, data \in ChangePasswordBodies :
        change_password(tok, data, Clock)

(* The two-step handlers, on either worker *)
RacePostBodies == {EmptyPostBody, Titled(T_A)}
RaceUserBodies == {Account(U_new, E_new, P_new), Account(U_new, E_Test, P_new)}
RaceTagBodies == {TagBody({"name"}, N_a, <<>>, <<>>), TagBody({"name"}, N_A, <<>>, <<>>)}

(* The requests carry the regular user's token, or none *)
RaceTokens == {NoUser, 2}

CreatePostLookup ==
    \E w \in Workers, tok \in RaceTokens, data \in RacePostBodies :
        create_post_lookup(w, tok, data)

CreatePostCommit == \E w \in Workers : create_post_commit(w, Clock)

RegisterLookup ==
    \E w \in Workers, data \in RaceUserBodies : register_lookup(w, data)

RegisterCommit == \E w \in Workers : register_commit(w, Clock)

CreateTagLookup ==
    \E w \in Workers, tok \in RaceTokens, data \in RaceTagBodies :
        create_tag_lookup(w, tok, data)

CreateTagCommit == \E w \in Workers : create_tag_commit(w, Clock)

----------------------------------------------------------------------------
(* Specifications *)

(* Slug allocation: every create_post body, and deletion *)
NextSlugs == CreatePost(CreatePostBodies) \/ DeletePost
SpecSlugs == Init /\ [][NextSlugs]_vars

(* Who may change or delete a post: posts with comments, edited and deleted *)
EditBody == PostBody({"title", "content", "excerpt"}, T_B, Body_x, Body_x, FALSE, <<>>)
NextAccess ==
    \/ CreatePost({Titled(T_A)})
    \/ UpdatePost({EmptyPostBody, EditBody})
    \/ DeletePost
    \/ CreateComment({CommentBody({"content"}, Body_c, <<>>, <<>>, FALSE)})
SpecAccess == Init /\ [][NextAccess]_vars

(* Publication: drafts and published posts, published, unpublished and edited *)
PublishBodies ==
    { EmptyPostBody, Titled(T_A),
      PostBody({"title", "content", "is_published"}, T_A, Body_c, <<>>, TRUE, <<>>) }
NextPublish ==
    \/ CreatePost(PublishBodies)
    \/ UpdatePost(UpdatePostBodies \ {EmptyPostBody})
    \/ DeletePost
SpecPublish == Init /\ [][NextPublish]_vars

(* Comments and their moderation *)
NextComments ==
    \/ CreatePost({Titled(T_A)})
    \/ DeletePost
    \/ CreateComment(CreateCommentBodies)
    \/ ApproveComment
    \/ GetPostComments
    \/ GetAllUsers
    \/ GetAllComments
SpecComments == Init /\ [][NextComments]_vars

(* Tags beside posts *)
NextTags == CreateTag \/ CreatePost({Titled(T_A)})
SpecTags == Init /\ [][NextTags]_vars

(* Accounts *)
NextAuth == Register \/ Login
SpecAuth == Init /\ [][NextAuth]_vars

(* Sessions: logging in, refreshing and changing the password, with a
   deactivated account and a removed one *)
SessionLoginBodies ==
    { LoginBody({"password"}, <<>>, P_test),
      LoginBody({"username_or_email", "password"}, U_test, P_test),
      LoginBody({"username_or_email", "password"}, U_test, P_new),
      LoginBody({"username_or_email", "password"}, E_test, P_new),
      LoginBody({"username_or_email", "password"}, U_off, P_off),
      LoginBody({"username_or_email", "password"}, U_new, P_new) }
NextSession ==
    \/ LoginWith(SessionLoginBodies)
    \/ Refresh
    \/ ChangePassword
SpecSession == InitSession /\ [][NextSession]_vars

(* Every operation that writes, each with a request it refuses and one it
   carries out *)
NextWrites ==
    \/ RegisterWith({EmptyUserBody, Account(U_new, E_new, P_new),
                     Account(U_new, E_test, P_new)})
    \/ LoginWith({LoginBody({"username_or_email", "password"}, U_test, P_test),
                  LoginBody({"username_or_email", "password"}, U_test, P_new)})
    \/ ChangePassword
    \/ CreatePost({EmptyPostBody, Titled(T_A)})
    \/ UpdatePost({EmptyPostBody, EditBody})
    \/ DeletePost
    \/ CreateTagWith({EmptyTagBody, TagBody({"name"}, N_a, <<>>, <<>>),
                      TagBody({"name"}, N_A, <<>>, <<>>)})
    \/ CreateComment({EmptyCommentBody, CommentBody({"content"}, Body_c, <<>>, <<>>, FALSE)})
    \/ ApproveComment
SpecWrites == InitSeeded /\ [][NextWrites]_vars

(* The read routes over posts that are published, unpublished and deleted *)
NextPublic ==
    \/ GetPosts
    \/ MainGetPosts
    \/ MainGetPost
    \/ GetPostsByTag
    \/ UpdatePost({PostBody({"is_published"}, <<>>, <<>>, <<>>, TRUE, <<>>),
                   PostBody({"is_published"}, <<>>, <<>>, <<>>, FALSE, <<>>)})
    \/ DeletePost
SpecPublic == InitPublic /\ [][NextPublic]_vars

(* The list routes over tables that shrink down to empty *)
NextPaging ==
    \/ GetPosts
    \/ MainGetPosts
    \/ GetPostsByTag
    \/ ListUsers
    \/ ListComments
    \/ UpdatePost({PostBody({"is_published"}, <<>>, <<>>, <<>>, TRUE, <<>>)})
    \/ DeletePost
SpecPaging == InitPublic /\ [][NextPaging]_vars

(* Deleting posts that carry comments and tags, and looking for them afterwards *)
NextCascade ==
    \/ DeletePost
    \/ GetPost
    \/ MainGetPost
    \/ CreatePost({Titled(T_A)})
    \/ CreateComment({CommentBody({"content"}, Body_c, <<>>, <<>>, FALSE)})
    \/ UpdatePost({PostBody({"is_published"}, <<>>, <<>>, <<>>, TRUE, <<>>)})
SpecCascade == InitPublic /\ [][NextCascade]_vars

(* Two workers creating posts, accounts and tags side by side *)
NextRace ==
    \/ CreatePostLookup
    \/ CreatePostCommit
    \/ RegisterLookup
    \/ RegisterCommit
    \/ CreateTagLookup
    \/ CreateTagCommit
SpecRace == Init /\ [][NextRace]_vars

(* Logging in by username and by email while accounts are registered whose
   username is another user's email *)
IdentityRegisterBodies ==
    { Account(U_new, E_new, P_new), Account(E_test, E_new, P_new),
      Account(E_test, E_new, P_test) }
IdentityLoginBodies ==
    { LoginBody({"username_or_email", "password"}, U_test, P_test),
      LoginBody({"username_or_email", "password"}, E_test, P_test),
      LoginBody({"username_or_email", "password"}, E_test, P_new) }
NextIdentity == RegisterWith(IdentityRegisterBodies) \/ LoginWith(IdentityLoginBodies)
SpecIdentity == Init /\ [][NextIdentity]_vars

(* Bodies that name a slug and an owner beside the fields the handlers read *)
Claiming(data, uid) ==
    [keys |-> data.keys \cup {"slug", "user_id"}, title |-> data.title,
     content |-> data.content, excerpt |-> data.excerpt,
     is_published |-> data.is_published, slug |-> <<"x">>, user_id |-> uid]
NextOwner ==
    \/ CreatePost({Titled(T_A), Claiming(Titled(T_A), 1)})
    \/ UpdatePost({EditBody, Claiming(EditBody, 1), Claiming(EditBody, 2)})
    \/ DeletePost
SpecOwner == Init /\ [][NextOwner]_vars

(* Every handler *)
Next ==
    \/ CreatePost(CreatePostBodies)
    \/ UpdatePost(UpdatePostBodies)
    \/ DeletePost
    \/ CreateComment(CreateCommentBodies)
    \/ ApproveComment
    \/ GetPostComments
    \/ GetAllUsers
    \/ GetAllComments
    \/ CreateTag
    \/ Register
    \/ Login
    \/ Refresh
    \/ ChangePassword
    \/ GetPosts
    \/ GetPost
    \/ MainGetPosts
    \/ MainGetPost
    \/ GetPostsByTag
    \/ ListUsers
    \/ ListComments
Spec == Init /\ [][Next]_vars

----------------------------------------------------------------------------
(* Properties *)

IsAdmin(uid) == uid \in UserIds /\ users[uid].is_admin

(* C1: an authenticated PUT or DELETE on an existing post is answered 403
   exactly when the caller is neither the post's owner nor an administrator,
   and a 403 leaves every post and every comment as it was *)
C1_OwnerOrAdminOnly ==
    [][ (resp'.op \in {"update_post", "delete_post"}
            /\ resp'.tok # NoUser /\ resp'.id \in DOMAIN posts)
        => /\ resp'.status = 403
                <=> ~(posts[resp'.id].user_id = resp'.tok \/ IsAdmin(resp'.tok))
           /\ resp'.status = 403
                => /\ posts' = posts /\ comments' = comments
                   /\ resp'.id \in DOMAIN posts' ]_vars

(* C1: a regular user was refused on an administrator's post that has a
   comment *)
C1_Witness ==
    /\ resp.op \in {"update_post", "delete_post"}
    /\ resp.status = 403
    /\ resp.id \in PostIds
    /\ \E c \in CommentIds : comments[c].post_id = resp.id

(* The posts made so far from a title (no slug supplied) with the candidate of
   the i-th, up to the i-th *)
SlugRank(i) ==
    Cardinality({j \in 1..i : /\ ~created[j].supplied
                              /\ created[j].candidate = created[i].candidate})

NthSlug(i) ==
    IF SlugRank(i) = 1 THEN created[i].candidate
    ELSE Suffixed(created[i].candidate, SlugRank(i) - 1)

(* Only create_post calls so far: every post made is still there *)
NoPostDeleted == Cardinality(PostIds) = Len(created)

(* The slugs candidate, candidate-1, candidate-2, ... *)
SlugFamily(candidate) ==
    {candidate} \cup {Suffixed(candidate, k) : k \in 1..(MaxPosts + 1)}

(* An earlier post, not of the i-th's group, holds a slug of its family *)
FamilyDisturbed(i) ==
    \E j \in 1..(i - 1) :
        /\ created[j].supplied \/ created[j].candidate # created[i].candidate
        /\ created[j].slug \in SlugFamily(created[i].candidate)

(* C2 as stated: in a run of create_post calls, the N-th post of a candidate
   gets the bare candidate (N = 1) or candidate-(N-1) *)
C2_NthGetsNMinus1 ==
    NoPostDeleted =>
        \A i \in 1..Len(created) : ~created[i].supplied => created[i].slug = NthSlug(i)

(* C2 amended: every post gets the first of candidate, candidate-1,
   candidate-2, ... that no post holds when it is made; in a run of create_post
   calls that is candidate-(N-1) for the N-th post of the candidate unless an
   earlier post of another candidate, or with a supplied slug, holds a slug of
   that family *)
C2_FirstFreeSuffix ==
    \A i \in 1..Len(created) :
        LET e == created[i]
        IN  /\ e.slug \notin e.taken
            /\ \/ e.slug = e.candidate
               \/ \E k \in 1..(MaxPosts + 1) :
                     /\ e.slug = Suffixed(e.candidate, k)
                     /\ e.candidate \in e.taken
                     /\ \A m \in 1..(k - 1) : Suffixed(e.candidate, m) \in e.taken
            /\ (NoPostDeleted /\ ~e.supplied /\ ~FamilyDisturbed(i)) => e.slug = NthSlug(i)

(* C2: a second post of one candidate got candidate-1, among them the empty
   candidate's second post *)
C2_Witness ==
    /\ NoPostDeleted
    /\ \E i \in 1..Len(created) :
          /\ ~created[i].supplied /\ ~FamilyDisturbed(i)
          /\ SlugRank(i) = 2
          /\ created[i].candidate = <<>>
          /\ created[i].slug = <<"-", "1">>

(* C4: once a post's published_at has a value, no step changes or clears it *)
C4_PublishedAtSetOnce ==
    [][ \A p \in (DOMAIN posts) \cap (DOMAIN posts') :
            posts[p].published_at # NoTime
                => posts'[p].published_at = posts[p].published_at ]_vars

(* C4: a post first published earlier has just been published again by an
   update *)
C4_Witness ==
    /\ resp.op = "update_post" /\ resp.status = 200
    /\ Has(resp.req, "is_published") /\ resp.req.is_published
    /\ resp.id \in PostIds
    /\ posts[resp.id].published_at # NoTime
    /\ posts[resp.id].published_at < posts[resp.id].updated_at

(* C5: published_at is set exactly for the posts that have been published at
   some time, so a published post has it and a never published one has not *)
C5_PublishedAtIffEverPublished ==
    \A p \in PostIds :
        /\ posts[p].published_at # NoTime <=> p \in ever_published
        /\ posts[p].is_published => posts[p].published_at # NoTime

(* C5: a post that was published is a draft again, beside one never published *)
C5_Witness ==
    \E p, q \in PostIds :
        /\ ~posts[p].is_published /\ posts[p].published_at # NoTime
        /\ p \in ever_published
        /\ q \notin ever_published /\ posts[q].published_at = NoTime

(* The first of candidate, candidate-1, candidate-2, ... outside a set of slugs *)
RECURSIVE FirstFree(_, _, _)
FirstFree(original, held, counter) ==
    IF Suffixed(original, counter) \notin held THEN Suffixed(original, counter)
    ELSE FirstFree(original, held, counter + 1)

FirstFreeSlug(original, held) ==
    IF original \notin held THEN original ELSE FirstFree(original, held, 1)

(* C3 as stated: an authenticated create_tag with a name no tag has, the store
   working, answers 201, and the tag gets the first of candidate, candidate-1,
   candidate-2, ... that no other tag holds, whatever slugs the posts hold *)
C3_TagSlugFirstFree ==
    (/\ resp.op = "create_tag" /\ resp.tok # NoUser
     /\ Has(resp.req, "name") /\ ~resp.fault
     /\ resp.err # "Tag already exists")
    => /\ resp.status = 201
       /\ resp.id \in TagIds
       /\ tags[resp.id].slug =
             FirstFreeSlug(TagSlug(resp.req),
                           {tags[g].slug : g \in TagIds \ {resp.id}})

RegisterComplete(data) ==
    /\ ~MissingText(data, "username") /\ ~MissingText(data, "email")
    /\ ~MissingText(data, "password")
    /\ validate_email(data.email)

DuplicateErrors == {"Username already exists", "Email already exists"}

(* C6: a complete registration whose username or email equals, character for
   character, that of a stored user is answered 400 with the duplicate error,
   carries no tokens and leaves the users and the issued tokens as they were;
   and a duplicate error is given only for such an exact match *)
C6_DuplicateRegistrationRefused ==
    [][ resp'.op = "register" =>
          LET data == resp'.req
              sameName == \E u \in DOMAIN users : users[u].username = data.username
              sameMail == \E u \in DOMAIN users : users[u].email = data.email
          IN  /\ (RegisterComplete(data) /\ (sameName \/ sameMail))
                    => /\ resp'.status = 400
                       /\ resp'.err = IF sameName THEN "Username already exists"
                                      ELSE "Email already exists"
                       /\ resp'.granted = NoUser
                       /\ users' = users /\ issued' = issued
              /\ resp'.err \in DuplicateErrors
                    => RegisterComplete(data) /\ (sameName \/ sameMail) ]_vars

(* C6: a user registered through the API, then a registration with that user's
   username was refused; and one whose email differs from a stored one only in
   case was accepted *)
C6_Witness ==
    /\ resp.op = "register" /\ resp.status = 400
    /\ resp.err = "Username already exists"
    /\ resp.req.username = U_new
    /\ \E u, v \in UserIds : users[u].email = E_test /\ users[v].email = E_Test

AdminOps == {"get_all_users", "get_all_comments", "approve_comment"}

(* C7: an admin-only endpoint answers 401 exactly to a request without a
   token, 403 exactly to a token of a user who is not an administrator, and
   runs the view (200, 404 or 500) exactly for an administrator's token; a
   401 or 403 changes no row and issues no token *)
C7_AdminOnly ==
    [][ resp'.op \in AdminOps =>
          /\ resp'.status = 401 <=> resp'.tok = NoUser
          /\ resp'.status = 403 <=> (resp'.tok # NoUser /\ ~IsAdmin(resp'.tok))
          /\ resp'.status \in {200, 404, 500} <=> IsAdmin(resp'.tok)
          /\ resp'.status \in {401, 403} => db' = db /\ issued' = issued ]_vars

(* C7: a regular user was refused the approval of a pending comment *)
C7_Witness ==
    /\ resp.op = "approve_comment" /\ resp.status = 403
    /\ resp.tok # NoUser
    /\ resp.id \in CommentIds /\ ~comments[resp.id].is_approved

(* C8 as stated: of a comment that create_comment has made, the user_id is the
   caller's id when the request carried a valid token, and without a token it
   is null and the comment carries the author_name and author_email of the
   body *)
C8_CommentRecordsCaller ==
    (resp.op = "create_comment" /\ resp.status = 201)
    => /\ resp.id \in CommentIds
       /\ IF resp.tok # NoUser
          THEN comments[resp.id].user_id = resp.tok
          ELSE /\ comments[resp.id].user_id = NoUser
               /\ Has(resp.req, "author_name")
                     => comments[resp.id].author_name = resp.req.author_name
               /\ Has(resp.req, "author_email")
                     => comments[resp.id].author_email = resp.req.author_email

(* C9: a comment is pending when made, whatever its request says; an approved
   comment stays approved; is_approved changes only in an administrator's
   successful approval of that comment; and an administrator's approval of any
   existing comment, approved already or not, answers 200 and leaves it
   approved unless the store fails *)
C9_ApprovalOneWay ==
    [][ /\ \A c \in (DOMAIN comments') \ (DOMAIN comments) : ~comments'[c].is_approved
        /\ \A c \in (DOMAIN comments) \cap (DOMAIN comments') :
              /\ comments[c].is_approved => comments'[c].is_approved
              /\ comments'[c].is_approved # comments[c].is_approved
                    => /\ resp'.op = "approve_comment" /\ resp'.status = 200
                       /\ resp'.id = c /\ IsAdmin(resp'.tok)
        /\ (/\ resp'.op = "approve_comment" /\ IsAdmin(resp'.tok)
            /\ resp'.id \in DOMAIN comments /\ ~resp'.fault)
              => /\ resp'.status = 200
                 /\ resp'.id \in DOMAIN comments'
                 /\ comments'[resp'.id].is_approved ]_vars

(* C9: beside an approved comment, a comment whose request said
   is_approved = true was made and is pending *)
C9_Witness ==
    /\ resp.op = "create_comment" /\ resp.status = 201
    /\ Has(resp.req, "is_approved") /\ resp.req.is_approved
    /\ resp.id \in CommentIds /\ ~comments[resp.id].is_approved
    /\ \E c \in CommentIds : comments[c].is_approved

(* C10: the public listing of a post's comments holds a comment exactly when
   it is a comment of that post and approved *)
C10_ListingIsApprovedOfPost ==
    (resp.op = "get_post_comments" /\ resp.status = 200)
    => /\ resp.items \subseteq CommentIds
       /\ \A c \in CommentIds :
             c \in resp.items
                <=> (comments[c].post_id = resp.id /\ comments[c].is_approved)

(* C10: a listing that shows an approved comment and leaves out a pending one of
   the same post *)
C10_Witness ==
    /\ resp.op = "get_post_comments" /\ resp.status = 200
    /\ resp.items # {}
    /\ \E c \in CommentIds \ resp.items : comments[c].post_id = resp.id

(* C13 as stated: a successful login changes the user's last_login and no
   other field of that user, and no other row *)
C13_LoginChangesOnlyLastLogin ==
    [][ (resp'.op = "login" /\ resp'.status = 200)
        => /\ resp'.id \in DOMAIN users
           /\ users' = [users EXCEPT ![resp'.id].last_login = now']
           /\ posts' = posts /\ tags' = tags /\ comments' = comments ]_vars

(* C13 amended: a successful login sets the user's last_login and, with the
   same UPDATE, the row's updated_at to the time of the login, and changes no
   other field of that user and no other row *)
C13_LoginChangesOnlyLoginStamps ==
    [][ (resp'.op = "login" /\ resp'.status = 200)
        => /\ resp'.id \in DOMAIN users
           /\ now' > now
           /\ users' = [users EXCEPT ![resp'.id].last_login = now',
                                     ![resp'.id].updated_at = now']
           /\ posts' = posts /\ tags' = tags /\ comments' = comments ]_vars

(* C13: a user created earlier has logged in: the row's last_login and
   updated_at are the time of the login, later than its creation *)
C13_Witness ==
    /\ resp.op = "login" /\ resp.status = 200
    /\ resp.id \in UserIds
    /\ users[resp.id].last_login = now
    /\ users[resp.id].updated_at = now
    /\ users[resp.id].created_at < now
    /\ \E u \in UserIds : u # resp.id /\ users[u].last_login < now

(* The identifier and the password of a login body, empty when absent *)
LoginName(data) == IF Has(data, "username_or_email") THEN data.username_or_email ELSE <<>>
LoginPassword(data) == IF Has(data, "password") THEN data.password ELSE <<>>

(* The password is the one the row's credential was made from *)
Verifies(user, password) == user.password_hash = PasswordHash(password)

(* C14: login answers 200 with tokens only for a user the identifier matches,
   whose credential the password verifies against and who is active; when no
   active matching user verifies it answers 401 (400 for an incomplete body);
   a 401 carries no tokens and leaves every user row, last_login included, as
   it was. refresh answers 200 with a token exactly when the token's user
   exists and is active, and 401 otherwise, changing nothing *)
C14_TokensOnlyForActiveVerifiedUser ==
    [][ /\ resp'.op = "login" =>
              LET data == resp'.req
                  matches == {u \in DOMAIN users :
                                 \/ users[u].username = LoginName(data)
                                 \/ users[u].email = LoginName(data)}
                  good == {u \in matches :
                              /\ Verifies(users[u], LoginPassword(data))
                              /\ users[u].is_active}
              IN  /\ resp'.status = 200
                        => resp'.id \in good /\ resp'.granted = resp'.id
                  /\ resp'.status # 200
                        => /\ resp'.granted = NoUser
                           /\ users' = users /\ issued' = issued
                  /\ (LoginName(data) # <<>> /\ LoginPassword(data) # <<>> /\ good = {})
                        => resp'.status = 401
        /\ resp'.op = "refresh" =>
              LET live == /\ resp'.tok \in DOMAIN users
                          /\ users[resp'.tok].is_active
              IN  /\ resp'.status = 200 <=> live
                  /\ resp'.status = 401 <=> ~live
                  /\ resp'.granted = IF live THEN resp'.tok ELSE NoUser
                  /\ users' = users /\ issued' = issued ]_vars

(* C14: the deactivated user gave the right password and was refused *)
C14_Witness ==
    /\ resp.op = "login" /\ resp.status = 401
    /\ resp.err = "Account is deactivated"
    /\ \E u \in UserIds :
          /\ users[u].username = LoginName(resp.req)
          /\ Verifies(users[u], LoginPassword(resp.req))
          /\ ~users[u].is_active
          /\ users[u].last_login < now

(* C15: change-password with both passwords given stores the new credential
   exactly when the current password verifies, changing no other user; a wrong
   current password is answered 400 'Current password is incorrect' with every
   row unchanged; and a login by a name that matches one active user succeeds
   exactly with the password of that user's stored credential, so after a
   change the new password logs in and the old one is refused, and after a
   refused change the old one still logs in *)
C15_PasswordReplacedOnlyWhenCurrentVerifies ==
    [][ /\ (/\ resp'.op = "change_password" /\ resp'.tok \in DOMAIN users
            /\ Has(resp'.req, "current_password") /\ Has(resp'.req, "new_password")
            /\ resp'.req.new_password # <<>>)
           => LET u == resp'.tok
                  ok == Verifies(users[u], resp'.req.current_password)
              IN  /\ ok => resp'.status = 200 \/ resp'.fault
                  /\ resp'.status = 200
                        => /\ ok
                           /\ Verifies(users'[u], resp'.req.new_password)
                           /\ resp'.req.new_password # resp'.req.current_password
                                 => ~Verifies(users'[u], resp'.req.current_password)
                           /\ \A v \in DOMAIN users : v # u => users'[v] = users[v]
                  /\ ~ok => /\ resp'.status = 400
                            /\ resp'.err = "Current password is incorrect"
                            /\ users' = users
        /\ (/\ resp'.op = "login" /\ ~resp'.fault
            /\ \E u \in DOMAIN users :
                  /\ users[u].is_active
                  /\ {v \in DOMAIN users :
                         \/ users[v].username = LoginName(resp'.req)
                         \/ users[v].email = LoginName(resp'.req)} = {u})
           => LET u == CHOOSE u \in DOMAIN users :
                          \/ users[u].username = LoginName(resp'.req)
                          \/ users[u].email = LoginName(resp'.req)
              IN  /\ Verifies(users[u], LoginPassword(resp'.req))
                        => resp'.status = 200 /\ resp'.id = u
                  /\ ~Verifies(users[u], LoginPassword(resp'.req))
                        => resp'.status \in {400, 401} ]_vars

(* C15: after a change of the password the old password was refused at login *)
C15_Witness ==
    /\ resp.op = "login" /\ resp.status = 401
    /\ LoginName(resp.req) = U_test /\ LoginPassword(resp.req) = P_test
    /\ \E u \in UserIds :
          /\ users[u].username = U_test
          /\ Verifies(users[u], P_new)
          /\ users[u].updated_at > users[u].last_login

GenericFailures ==
    { "Failed to register user", "Failed to create post", "Failed to update post",
      "Failed to delete post", "Failed to create tag", "Failed to create comment",
      "Failed to approve comment", "Internal server error" }

(* C11: when the store fails during a request's write the answer is 500 with
   a generic message and no tokens, and every table is as it was before the
   request; no 500 of any writing operation leaves a change behind *)
C11_FailedWriteLeavesNothing ==
    [][ /\ resp'.fault => resp'.status = 500
        /\ resp'.status = 500
              => /\ resp'.err \in GenericFailures
                 /\ resp'.granted = NoUser
                 /\ db' = db /\ issued' = issued ]_vars

(* C11: the store failed at the commit of a login, and the user's last_login
   is the one from before, beside rows written by earlier requests *)
C11_Witness ==
    /\ resp.op = "login" /\ resp.fault /\ resp.status = 500
    /\ \E u \in UserIds :
          /\ users[u].username = LoginName(resp.req)
          /\ Verifies(users[u], LoginPassword(resp.req))
          /\ users[u].last_login < now
    /\ PostIds # {} /\ CommentIds # {}

Refusals == {400, 401, 403, 404}

(* C12: a request answered 400, 401, 403 or 404 leaves every table, and the
   tokens issued, as they were before it *)
C12_RefusalLeavesStore ==
    [][ resp'.status \in Refusals
            => /\ db' = db /\ issued' = issued
               /\ resp'.granted = NoUser ]_vars

(* C12: a change of password with a wrong current password was refused in a
   store holding a post and a comment *)
C12_Witness ==
    /\ resp.op = "change_password" /\ resp.status = 400
    /\ resp.err = "Current password is incorrect"
    /\ resp.tok \in UserIds
    /\ ~Verifies(users[resp.tok], resp.req.current_password)
    /\ PostIds # {} /\ CommentIds # {}

----------------------------------------------------------------------------
(* Paged listings *)

ListOps ==
    {"get_posts", "main_get_posts", "get_posts_by_tag", "get_all_users",
     "get_all_comments"}

(* The records the filter of the answered listing matches *)
ListedRecords ==
    CASE resp.op = "get_posts" ->
            ApiPostsQuery(resp.req.published_only, resp.req.tag)
      [] resp.op = "main_get_posts" -> {p \in PostIds : posts[p].is_published}
      [] resp.op = "get_posts_by_tag" ->
            {p \in PostIds : resp.id \in posts[p].tags /\ posts[p].is_published}
      [] resp.op = "get_all_users" -> UserIds
      [] resp.op = "get_all_comments" ->
            {c \in CommentIds : resp.req.published_only => comments[c].is_approved}
      [] OTHER -> {}

(* A listing the caller may ask for, of a tag that exists *)
ListingAnswered ==
    resp.op \in ListOps /\ resp.status \notin {401, 403, 404}

(* C16: every list endpoint answers any page number and page size with 200;
   a page outside 1..pages has no items; page 1 with per_page 10 of an empty
   table has no items, total 0, pages 0 and current_page 1; total is the
   number of records the endpoint's filter matches *)
C16_ListingsServeAnyPage ==
    ListingAnswered =>
        /\ resp.status = 200
        /\ resp.total = Cardinality(ListedRecords)
        /\ resp.req.page \notin 1..resp.pages => resp.items = {}
        /\ (resp.total = 0 /\ resp.req.page = 1 /\ resp.req.per_page = 10)
               => resp.items = {} /\ resp.pages = 0 /\ resp.current_page = 1

----------------------------------------------------------------------------
(* Deleting a post *)

Deleted(r) == r.op = "delete_post" /\ r.status = 200

(* Every comment belongs to a post and every post to a user *)
ReferencesResolve ==
    /\ \A c \in CommentIds : comments[c].post_id \in PostIds
    /\ \A p \in PostIds : posts[p].user_id \in UserIds

(* A post that is not in the store is not found by id nor by slug *)
GoneIsNotFound ==
    /\ (resp.op = "get_post" /\ resp.id \notin PostIds) => resp.status = 404
    /\ (resp.op = "main_get_post" /\ ~PostSlugTaken(resp.req.slug))
           => resp.status = 404

(* C18: a successful DELETE removes the post and exactly the comments attached
   to it, and leaves the other posts, their comments, all tags and all users
   as they were; afterwards the post is not found by id nor by slug; in every
   state each comment's post_id is the id of a post and each post's user_id
   the id of a user *)
C18_DeleteCascades ==
    /\ [][ Deleted(resp') =>
             /\ resp'.id \in PostIds
             /\ posts' = [p \in PostIds \ {resp'.id} |-> posts[p]]
             /\ comments' = [c \in {d \in CommentIds : comments[d].post_id # resp'.id}
                                |-> comments[c]]
             /\ tags' = tags
             /\ users' = users ]_vars
    /\ [](GoneIsNotFound /\ ReferencesResolve)

(* A post with a comment was deleted while another post keeps its comment *)
C18_Witness ==
    /\ Deleted(resp)
    /\ resp.id \notin PostIds
    /\ \E c \in CommentIds : comments[c].post_id \in PostIds
    /\ \E e \in 1..Len(created) : created[e].id = resp.id

----------------------------------------------------------------------------
(* Drafts and the public routes *)

PublicOps == {"main_get_posts", "main_get_post", "get_posts_by_tag"}

(* The posts an answer carries are all published *)
ServesPublishedOnly == \A p \in resp.items : p \in PostIds /\ posts[p].is_published

(* C19: GET /posts, GET /posts/<slug> and GET /tags/<slug> carry only posts
   with is_published true, and the slug of a post that is not published is
   answered 404; GET /api/v1/posts carries only published posts unless the
   request sets published_only to something other than 'true' *)
C19_DraftsNotServed ==
    /\ resp.op \in PublicOps /\ resp.status = 200 => ServesPublishedOnly
    /\ (resp.op = "main_get_post"
          /\ \A p \in PostIds : posts[p].slug = resp.req.slug => ~posts[p].is_published)
           => resp.status = 404 /\ resp.items = {}
    /\ resp.op = "get_posts" /\ resp.req.published_only => ServesPublishedOnly

(* A post that was published and unpublished again is asked for by its slug *)
C19_Witness ==
    /\ resp.op = "main_get_post"
    /\ resp.status = 404
    /\ \E p \in PostIds :
           /\ posts[p].slug = resp.req.slug
           /\ ~posts[p].is_published
           /\ p \in ever_published

----------------------------------------------------------------------------
(* Requests side by side *)

(* C17: however the lookups and commits of concurrent handlers interleave, no
   two users share a username or an email, no two posts a slug, and no two
   tags a name or a slug; a post and a tag may hold the same slug *)
C17_UniqueColumns ==
    /\ \A u, v \in UserIds :
           u # v => /\ users[u].username # users[v].username
                    /\ users[u].email # users[v].email
    /\ \A p, q \in PostIds : p # q => posts[p].slug # posts[q].slug
    /\ \A g, h \in TagIds :
           g # h => tags[g].name # tags[h].name /\ tags[g].slug # tags[h].slug

(* A registration that found its username free and lost it to the other
   worker before its commit, in a store where a post and a tag share a slug *)
C17_Witness ==
    /\ resp.op = "register" /\ resp.status = 500 /\ ~resp.fault
    /\ \E u \in UserIds : users[u].username = resp.req.username
    /\ \E p \in PostIds, g \in TagIds : posts[p].slug = tags[g].slug

(* C20: a valid create_post is answered 500 only when the store itself fails,
   never because another request committed the same slug between its lookup
   and its own commit: two such requests both get 201 *)
C20_ConcurrentCreatesSucceed ==
    (resp.op = "create_post" /\ resp.status = 500) => resp.fault

----------------------------------------------------------------------------
(* Logging in as oneself *)

(* The active users who hold the submitted identifier as their username or as
   their email and whose credential the submitted password verifies against *)
RightfulUsers ==
    {v \in UserIds :
        /\ users[v].is_active
        /\ users[v].username = LoginName(resp.req) \/ users[v].email = LoginName(resp.req)
        /\ Verifies(users[v], LoginPassword(resp.req))}

(* C21: whatever accounts are registered, a login with an active user's own
   username or own email and that user's password is answered 200 with tokens
   of that user, unless the store itself fails *)
C21_OwnCredentialsLogIn ==
    (resp.op = "login" /\ ~resp.fault /\ RightfulUsers # {})
        => resp.status = 200 /\ resp.granted \in RightfulUsers

----------------------------------------------------------------------------
(* What a post keeps for life *)

(* C22: create_post makes the caller the owner whatever the body says, and no
   step changes the slug, the owner or the creation time of a post that stays
   in the store, whatever titles, slugs and owners the bodies of update_post
   carry *)
C22_SlugAndOwnerFixed ==
    [][ /\ (resp'.op = "create_post" /\ resp'.status = 201)
              => /\ resp'.id \in PostIds' \ PostIds
                 /\ posts'[resp'.id].user_id = resp'.tok
        /\ \A p \in PostIds \cap PostIds' :
              /\ posts'[p].slug = posts[p].slug
              /\ posts'[p].user_id = posts[p].user_id
              /\ posts'[p].created_at = posts[p].created_at
              /\ posts'[p].tags = posts[p].tags ]_vars

(* The administrator has retitled the regular user's post with a body that
   names another slug and another owner *)
C22_Witness ==
    /\ resp.op = "update_post" /\ resp.status = 200 /\ resp.tok = 1
    /\ {"slug", "user_id"} \subseteq resp.req.keys
    /\ resp.req.user_id = 1
    /\ resp.id \in PostIds
    /\ posts[resp.id].title = T_B
    /\ posts[resp.id].slug = <<"a">>
    /\ posts[resp.id].user_id = 2

============================================================================
